---- MODULE Spec2Model ----
(***************************************************************************)
(* State-machine model of the pokemon-card-game backend: the room          *)
(* registry, the GameRoom class and the socket event handlers.             *)
(***************************************************************************)
EXTENDS Integers, Sequences, FiniteSets, TLC

\* ------------------------------------------------------------------ bounds
MaxSockets == 2      \* socket connections ever opened
MaxCodes == 2        \* distinct room codes Math.random() can produce
MaxObjs == 2         \* GameRoom objects alive at once
MaxStat == 2         \* base_stat values range over 1..MaxStat
MaxScore == 2        \* no further evaluation once a score reached this
MaxRound == 3        \* no further advancement once currentRound reached this
MaxTimers == 2       \* pending setTimeout callbacks per room
MaxTasks == 1        \* startNewRound invocations suspended in a fetch
MaxRoundsToWin == 1  \* largest roundsToWin a client sends
MaxMaxWinners == 2   \* largest maxWinners a client sends
MaxEvents == 5       \* client events and provider failures in one run
MaxServerEvents == 4 \* the same, in a run of server.js
MaxPool == 3         \* players of a room on which one method is run alone

\* -------------------------------------------------------- program constants
DefaultRoundsToWin == 3
DefaultMaxWinners == 1
TwoPlayers == 2
WinnersCap == 3

\* ------------------------------------------------------------- value sets
Null == 0                      \* null / undefined for ids, codes and numbers
SocketIds == 1..MaxSockets
Codes == 1..MaxCodes
ObjIds == 1..MaxObjs
Names == {"a", "A", "b"}
\* a room's first name, up to renaming: what matters is how later names compare to it
CreatorNames == {"a"}
Stats == {"hp", "attack", "bogus"}      \* "bogus" is no key of pokemon.stats
NoStat == "null"
NoCard == [hp |-> 0, attack |-> 0]      \* player.pokemon = null
Cards == [hp : 1..MaxStat, attack : 1..MaxStat]
\* the cards the provider returns in a run: strong in one stat, weak in the other
Drawn == {c \in Cards : c.hp + c.attack = MaxStat + 1}
Orphan == 0 - 1                \* a player object no roster entry refers to
NoRoom == [code |-> Null]
NoTask == [room |-> Null]
NoTimers == [selectStat |-> 0, rematch |-> 0]

VARIABLES
    sockets,      \* number of connections opened so far (socket ids 1..sockets)
    live,         \* io.sockets.sockets: ids of the connected sockets
    gameRooms,    \* the Map gameRooms: GameRoom objects in insertion order of their keys
    rooms,        \* the GameRoom objects, by object identity
    timers,       \* pending setTimeout callbacks, per GameRoom object
    tasks,        \* startNewRound invocations suspended in await fetchRandomPokemon()
    crashed,      \* the process died of an uncaught exception
    activePlayers,\* server.js only: the global Set of lower-cased names
    events        \* number of client events and provider failures so far

vars == <<sockets, live, gameRooms, rooms, timers, tasks, crashed, activePlayers, events>>

\* ------------------------------------------------------------- sequences
Range(s) == {s[i] : i \in 1..Len(s)}

Includes(s, x) == \E i \in 1..Len(s) : s[i] = x

\* String.prototype.toLowerCase on the names in use
ToLower(name) == IF name = "A" THEN "a" ELSE name

\* --------------------------------------------------------- Map players
Keys(players) == [i \in 1..Len(players) |-> players[i].id]

Has(players, id) == \E i \in 1..Len(players) : players[i].id = id

Pos(players, id) == CHOOSE i \in 1..Len(players) : players[i].id = id

Get(players, id) == players[Pos(players, id)]

\* Map.set: a present key keeps its position and gets the new value
MapSet(players, p) ==
    IF Has(players, p.id)
    THEN [players EXCEPT ![Pos(players, p.id)] = p]
    ELSE Append(players, p)

MapDelete(players, id) == SelectSeq(players, LAMBDA p : p.id # id)

\* ----------------------------------------------------------- registry
RoomOf(code) ==
    IF \E i \in 1..Len(gameRooms) : rooms[gameRooms[i]].code = code
    THEN gameRooms[CHOOSE i \in 1..Len(gameRooms) : rooms[gameRooms[i]].code = code]
    ELSE Null

\* --------------------------------------------------------- class GameRoom
\* constructor: players is empty when validateMaxWinners runs
ValidateMaxWinners(room, maxWinners) ==
    LET playerCount == Len(room.players)
        cap == IF playerCount - 1 < WinnersCap THEN playerCount - 1 ELSE WinnersCap
    IN  IF playerCount <= TwoPlayers THEN 1
        ELSE IF maxWinners < cap THEN maxWinners ELSE cap

NewGameRoom(code, settings) ==
    LET blank == [code |-> code,
                  players |-> <<>>,
                  currentRound |-> 1,
                  currentPicker |-> Null,
                  settings |-> [roundsToWin |-> Null, maxWinners |-> Null],
                  winners |-> <<>>,
                  creator |-> Null,
                  inTieBreaker |-> FALSE,
                  tieBreakPlayers |-> <<>>,
                  lastSelectedStat |-> NoStat,
                  playerNames |-> {},
                  namesCleared |-> FALSE]   \* history: clearAllPlayerNames has run
    IN  [blank EXCEPT !.settings =
            [roundsToWin |-> IF settings.roundsToWin # Null
                             THEN settings.roundsToWin ELSE DefaultRoundsToWin,
             maxWinners |-> ValidateMaxWinners(blank,
                             IF settings.maxWinners # Null
                             THEN settings.maxWinners ELSE DefaultMaxWinners)]]

AddPlayer(room, playerId, playerName, isCreator) ==
    [room EXCEPT
        !.players = MapSet(@, [id |-> playerId, name |-> playerName, score |-> 0,
                               pokemon |-> NoCard, isCreator |-> isCreator]),
        !.playerNames = @ \cup {ToLower(playerName)},
        !.creator = IF isCreator THEN playerId ELSE @]

RemovePlayer(room, playerId) ==
    IF Has(room.players, playerId)
    THEN [room EXCEPT
            !.playerNames = @ \ {ToLower(Get(room.players, playerId).name)},
            !.players = MapDelete(@, playerId)]
    ELSE room

ClearPlayerName(room, playerId) ==
    IF Has(room.players, playerId)
    THEN [room EXCEPT !.playerNames = @ \ {ToLower(Get(room.players, playerId).name)}]
    ELSE room

ClearAllPlayerNames(room) == [room EXCEPT !.playerNames = {}, !.namesCleared = TRUE]

\* the method GameRoom.updateSettings, which no handler calls
UpdateSettingsMethod(room, settings) ==
    [room EXCEPT !.settings =
        [roundsToWin |-> IF settings.roundsToWin # Null
                         THEN settings.roundsToWin ELSE @.roundsToWin,
         maxWinners |-> IF settings.maxWinners # Null
                        THEN ValidateMaxWinners(room, settings.maxWinners)
                        ELSE @.maxWinners]]

GetActivePlayers(room) ==
    SelectSeq(Keys(room.players), LAMBDA id : ~Includes(room.winners, id))

IndexOf(s, x) == IF Includes(s, x) THEN CHOOSE i \in 1..Len(s) : s[i] = x ELSE 0

\* getNextPicker over the whole roster: winners are not skipped
GetNextPickerOverRoster(room) ==
    LET active == Keys(room.players)
        currentIndex == IndexOf(active, room.currentPicker)
    IN  IF Len(active) = 0 THEN Null
        ELSE IF room.currentPicker = Null THEN active[1]
        ELSE IF currentIndex = 0 THEN active[1]
        ELSE active[(currentIndex % Len(active)) + 1]

GetNextPicker(room) ==
    LET active == GetActivePlayers(room)
        currentIndex == IndexOf(active, room.currentPicker)
    IN  IF Len(active) = 0 THEN Null
        ELSE IF room.currentPicker = Null \/ Includes(room.winners, room.currentPicker)
        THEN active[1]
        ELSE IF currentIndex = 0 THEN active[1]
        ELSE active[(currentIndex % Len(active)) + 1]

\* transferCreator without "oldCreator.isCreator = false"
TransferCreatorKeepsOld(room, oldCreatorId, newCreatorId) ==
    IF ~Has(room.players, oldCreatorId) \/ ~Has(room.players, newCreatorId)
       \/ oldCreatorId # room.creator
    THEN [ok |-> FALSE, room |-> room]
    ELSE [ok |-> TRUE,
          room |-> [room EXCEPT
              !.players[Pos(room.players, newCreatorId)].isCreator = TRUE,
              !.creator = newCreatorId]]

\* transferCreator without "oldCreatorId !== this.creator"
TransferCreatorByAnyone(room, oldCreatorId, newCreatorId) ==
    IF ~Has(room.players, oldCreatorId) \/ ~Has(room.players, newCreatorId)
    THEN [ok |-> FALSE, room |-> room]
    ELSE [ok |-> TRUE,
          room |-> [room EXCEPT
              !.players = [i \in 1..Len(room.players) |->
                  [room.players[i] EXCEPT !.isCreator =
                      IF room.players[i].id = newCreatorId THEN TRUE
                      ELSE IF room.players[i].id = oldCreatorId THEN FALSE ELSE @]],
              !.creator = newCreatorId]]

TransferCreatorMethod(room, oldCreatorId, newCreatorId) ==
    IF ~Has(room.players, oldCreatorId) \/ ~Has(room.players, newCreatorId)
       \/ oldCreatorId # room.creator
    THEN [ok |-> FALSE, room |-> room]
    ELSE LET cleared == [room.players EXCEPT
                            ![Pos(room.players, oldCreatorId)].isCreator = FALSE]
         IN  [ok |-> TRUE,
              room |-> [room EXCEPT
                  !.players = [cleared EXCEPT
                                  ![Pos(room.players, newCreatorId)].isCreator = TRUE],
                  !.creator = newCreatorId]]

AssignNewCreator(room) ==
    IF Len(room.players) > 0
       /\ (room.creator = Null \/ ~Has(room.players, room.creator))
    THEN [id |-> room.players[1].id,
          room |-> [room EXCEPT !.players[1].isCreator = TRUE,
                                !.creator = room.players[1].id]]
    ELSE [id |-> Null, room |-> room]

\* selectedStat === "hp" ? pokemon.hp : pokemon.stats[selectedStat]
StatValue(pokemon, stat) ==
    IF stat = "hp" THEN [def |-> TRUE, val |-> pokemon.hp]
    ELSE IF stat = "attack" THEN [def |-> TRUE, val |-> pokemon.attack]
    ELSE [def |-> FALSE, val |-> 0]

\* the loop of evaluateRound over playersToEvaluate
RECURSIVE ScanPool(_, _, _, _, _)
ScanPool(players, pool, stat, highestValue, roundWinners) ==
    IF pool = <<>> THEN roundWinners
    ELSE LET value == StatValue(Get(players, Head(pool)).pokemon, stat)
         IN  IF value.def /\ value.val > highestValue
             THEN ScanPool(players, Tail(pool), stat, value.val, <<Head(pool)>>)
             ELSE IF value.def /\ value.val = highestValue
             THEN ScanPool(players, Tail(pool), stat, highestValue,
                           Append(roundWinners, Head(pool)))
             ELSE ScanPool(players, Tail(pool), stat, highestValue, roundWinners)

PlayersToEvaluate(room) ==
    IF room.inTieBreaker THEN room.tieBreakPlayers ELSE GetActivePlayers(room)

\* reading player.pokemon.hp of an absent player or of a null pokemon throws
EvaluateThrows(room) ==
    \E i \in 1..Len(PlayersToEvaluate(room)) :
        \/ ~Has(room.players, PlayersToEvaluate(room)[i])
        \/ Get(room.players, PlayersToEvaluate(room)[i]).pokemon = NoCard

ScoreWinner(room, roundWinners) ==
    IF room.inTieBreaker \/ roundWinners = <<>> \/ ~Has(room.players, roundWinners[1])
    THEN room
    ELSE LET w == Pos(room.players, roundWinners[1])
             score == room.players[w].score + 1
         IN  [room EXCEPT
                !.players[w].score = score,
                !.winners = IF score >= room.settings.roundsToWin
                               /\ ~Includes(@, roundWinners[1])
                            THEN Append(@, roundWinners[1]) ELSE @]

EvaluateRound(room, selectedStat) ==
    LET marked == [room EXCEPT !.lastSelectedStat = selectedStat]
        roundWinners == ScanPool(room.players, PlayersToEvaluate(room), selectedStat,
                                 0 - 1, <<>>)
        scored == ScoreWinner(marked, roundWinners)
    IN  IF EvaluateThrows(room)
        THEN [threw |-> TRUE, room |-> marked, roundWinners |-> <<>>,
              gameEnded |-> FALSE]
        ELSE [threw |-> FALSE, room |-> scored, roundWinners |-> roundWinners,
              gameEnded |-> Len(scored.winners) >= scored.settings.maxWinners]

\* startGame up to its call of startNewRound
ResetGame(room) ==
    [room EXCEPT
        !.currentRound = 1,
        !.winners = <<>>,
        !.inTieBreaker = FALSE,
        !.tieBreakPlayers = <<>>,
        !.lastSelectedStat = NoStat,
        !.players = [i \in 1..Len(@) |-> [@[i] EXCEPT !.score = 0, !.pokemon = NoCard]]]

\* ------------------------------------------------------ startNewRound
\* What the loop of startNewRound does next with the ids left to draw for:
\* suspend in a fetch for the head, throw on an absent player, or finish.
RECURSIVE NextFetch(_, _, _)
NextFetch(players, queue, tieBreak) ==
    IF queue = <<>> THEN [kind |-> "done", cur |-> Null, queue |-> <<>>]
    ELSE IF Has(players, Head(queue))
    THEN [kind |-> "await", cur |-> Head(queue), queue |-> Tail(queue)]
    ELSE IF tieBreak THEN NextFetch(players, Tail(queue), tieBreak)
    ELSE [kind |-> "throw", cur |-> Null, queue |-> <<>>]

\* startNewRound up to its first await
BeginRound(room) ==
    IF room.inTieBreaker THEN room
    ELSE [room EXCEPT !.currentPicker = GetNextPicker(room)]

RoundQueue(room) ==
    IF room.inTieBreaker THEN room.tieBreakPlayers ELSE GetActivePlayers(room)

\* startNewRound after its loop: the snapshot is taken, then currentRound++
FinishRound(room) ==
    IF room.inTieBreaker THEN room ELSE [room EXCEPT !.currentRound = @ + 1]

\* ------------------------------------------------------------ messages
Msg(ev, code, sock, round) == [ev |-> ev, room |-> code, sock |-> sock, round |-> round]

RoundStarted(room) == Msg("roundStarted", room.code, Null, room.currentRound)

\* ---------------------------------------------------------- bookkeeping
FreeTask(tk) == CHOOSE t \in 1..MaxTasks : tk[t].room = Null /\
                    \A u \in 1..MaxTasks : tk[u].room = Null => t <= u

HasFreeTask == \E t \in 1..MaxTasks : tasks[t].room = Null

Referenced(o, reg, tm, tk) ==
    Includes(reg, o) \/ tm[o].selectStat + tm[o].rematch > 0 \/ \E t \in 1..MaxTasks : tk[t].room = o

\* the player object a suspended startNewRound holds is no longer in the roster
Detach(tk, o, id) ==
    [t \in 1..MaxTasks |->
        IF tk[t].room = o /\ tk[t].cur = id THEN [tk[t] EXCEPT !.cur = Orphan] ELSE tk[t]]

\* What a handler does: the state it leaves, the messages it emits, and
\* whether it ends in an uncaught exception.
Eff(rm, reg, tm, tk, msgs, dead) ==
    [rooms |-> rm, gameRooms |-> reg, timers |-> tm, tasks |-> tk, out |-> msgs,
     dead |-> dead, activePlayers |-> activePlayers]

\* a handler that returns without touching the state
Same(msgs) == Eff(rooms, gameRooms, timers, tasks, msgs, FALSE)

\* the variables after a handler; unreachable GameRoom objects are collected,
\* and an uncaught exception ends the process, whose memory is gone
Commit(e) ==
    /\ crashed' = e.dead
    /\ activePlayers' = IF e.dead THEN {} ELSE e.activePlayers
    /\ IF e.dead
       THEN /\ gameRooms' = <<>>
            /\ timers' = [o \in ObjIds |-> NoTimers]
            /\ tasks' = [t \in 1..MaxTasks |-> NoTask]
            /\ rooms' = [o \in ObjIds |-> NoRoom]
       ELSE /\ gameRooms' = e.gameRooms
            /\ timers' = e.timers
            /\ tasks' = e.tasks
            /\ rooms' = [o \in ObjIds |->
                            IF Referenced(o, e.gameRooms, e.timers, e.tasks)
                            THEN e.rooms[o] ELSE NoRoom]

\* a client event reaches its handler
Handle(s, e) ==
    /\ ~crashed
    /\ s \in live
    /\ events < MaxEvents
    /\ events' = events + 1
    /\ Commit(e)

\* runs startNewRound on object o from room state r until it suspends or ends;
\* a suspended run keeps who awaits it: startGame or a setTimeout callback
RunRound(rm, o, r, tk, caller) ==
    LET begun == BeginRound(r)
        nxt == NextFetch(begun.players, RoundQueue(begun), begun.inTieBreaker)
    IN  IF nxt.kind = "done"
        THEN [rooms |-> [rm EXCEPT ![o] = FinishRound(begun)], tasks |-> tk,
              out |-> {RoundStarted(begun)}]
        ELSE [rooms |-> [rm EXCEPT ![o] = begun],
              tasks |-> [tk EXCEPT ![FreeTask(tk)] =
                            [room |-> o, cur |-> nxt.cur, queue |-> nxt.queue,
                             tieBreak |-> begun.inTieBreaker, caller |-> caller]],
              out |-> {}]

NeedsTask(r) == RoundQueue(r) # <<>>

Init ==
    /\ sockets = 0
    /\ live = {}
    /\ gameRooms = <<>>
    /\ rooms = [o \in ObjIds |-> NoRoom]
    /\ timers = [o \in ObjIds |-> NoTimers]
    /\ tasks = [t \in 1..MaxTasks |-> NoTask]
    /\ crashed = FALSE
    /\ activePlayers = {}
    /\ events = 0

\* --------------------------------------------------------------- events
\* io.on("connection"): a new socket with a fresh id
Connect ==
    /\ ~crashed
    /\ sockets < MaxSockets
    /\ sockets' = sockets + 1
    /\ live' = live \cup {sockets + 1}
    /\ UNCHANGED <<gameRooms, rooms, timers, tasks, crashed, activePlayers, events>>

UsedCodes == {rooms[o].code : o \in {x \in ObjIds : rooms[x] # NoRoom}}

\* the codes Math.random() may give: one in use, or (up to renaming) the least unused
CodeChoices ==
    UsedCodes \cup {c \in Codes : c \notin UsedCodes /\
                        \A d \in Codes : d \notin UsedCodes => c <= d}

\* the object ids a new GameRoom may get when it is stored under code
FreeObjs(code) ==
    {o \in ObjIds :
        \/ rooms[o] = NoRoom
        \/ /\ o = RoomOf(code)
           /\ timers[o] = NoTimers
           /\ \A t \in 1..MaxTasks : tasks[t].room # o}

\* Map.set: a present key keeps its place in the iteration order
RegistrySet(reg, code, o) ==
    IF RoomOf(code) # Null
    THEN [i \in 1..Len(reg) |-> IF reg[i] = RoomOf(code) THEN o ELSE reg[i]]
    ELSE Append(reg, o)

CreateRoomEffect(s, playerName, settings, roomCode) ==
    LET o == CHOOSE x \in FreeObjs(roomCode) : \A y \in FreeObjs(roomCode) : x <= y
        gameRoom == AddPlayer(NewGameRoom(roomCode, settings), s, playerName, TRUE)
    IN  Eff([rooms EXCEPT ![o] = gameRoom], RegistrySet(gameRooms, roomCode, o),
            timers, tasks, {Msg("roomCreated", Null, s, Null)}, FALSE)

CreateRoom(s, playerName, settings, roomCode) ==
    /\ roomCode \in CodeChoices
    /\ FreeObjs(roomCode) # {}
    /\ Handle(s, CreateRoomEffect(s, playerName, settings, roomCode))
    /\ UNCHANGED <<sockets, live>>

\* socket.on("updateSettings"): the raw settings are merged, the method is not called
UpdateSettingsEffect(s, roomCode, settings) ==
    LET o == RoomOf(roomCode)
    IN  IF o = Null THEN Same({})
        ELSE Eff([rooms EXCEPT ![o].settings =
                     [roundsToWin |-> IF settings.roundsToWin # Null
                                      THEN settings.roundsToWin ELSE @.roundsToWin,
                      maxWinners |-> IF settings.maxWinners # Null
                                     THEN settings.maxWinners ELSE @.maxWinners]],
                 gameRooms, timers, tasks, {}, FALSE)

UpdateSettings(s, roomCode, settings) ==
    /\ Handle(s, UpdateSettingsEffect(s, roomCode, settings))
    /\ UNCHANGED <<sockets, live>>

\* the duplicate check of joinRoom without toLowerCase()
ExistingPlayerIdExact(room, playerName) ==
    LET hits == {i \in 1..Len(room.players) : room.players[i].name = playerName}
    IN  IF hits = {} THEN Null
        ELSE room.players[CHOOSE i \in hits : \A j \in hits : i <= j].id

\* the first roster entry whose name equals playerName ignoring case, or Null
ExistingPlayerId(room, playerName) ==
    LET hits == {i \in 1..Len(room.players) :
                    ToLower(room.players[i].name) = ToLower(playerName)}
    IN  IF hits = {} THEN Null
        ELSE room.players[CHOOSE i \in hits : \A j \in hits : i <= j].id

\* the reconnection branch without "newPlayer.score = player.score"
ReconnectLosesScore(room, existingPlayerId, s, playerName) ==
    LET player == Get(room.players, existingPlayerId)
        removed == RemovePlayer(ClearPlayerName(room, existingPlayerId), existingPlayerId)
        added == AddPlayer(removed, s, playerName, player.isCreator)
        creatorSet == IF player.isCreator THEN [added EXCEPT !.creator = s] ELSE added
        n == Pos(creatorSet.players, s)
    IN  [creatorSet EXCEPT !.players[n].pokemon = player.pokemon]

\* the reconnection branch of joinRoom
Reconnect(room, existingPlayerId, s, playerName) ==
    LET player == Get(room.players, existingPlayerId)
        removed == RemovePlayer(ClearPlayerName(room, existingPlayerId), existingPlayerId)
        added == AddPlayer(removed, s, playerName, player.isCreator)
        creatorSet == IF player.isCreator THEN [added EXCEPT !.creator = s] ELSE added
        n == Pos(creatorSet.players, s)
    IN  [creatorSet EXCEPT !.players[n].score = player.score,
                           !.players[n].pokemon = player.pokemon]

JoinRoomEffect(s, roomCode, playerName) ==
    LET o == RoomOf(roomCode)
        existingPlayerId == ExistingPlayerId(rooms[o], playerName)
    IN  IF o = Null THEN Same({Msg("error", Null, s, Null)})
        ELSE IF existingPlayerId # Null /\ existingPlayerId \in live
        THEN Same({Msg("error", Null, s, Null)})
        ELSE IF existingPlayerId # Null
        THEN Eff([rooms EXCEPT ![o] = Reconnect(@, existingPlayerId, s, playerName)],
                 gameRooms, timers, Detach(Detach(tasks, o, existingPlayerId), o, s),
                 {Msg("playerReconnected", roomCode, Null, Null),
                  Msg("gameStateUpdate", Null, s, Null)}, FALSE)
        ELSE Eff([rooms EXCEPT ![o] = AddPlayer(@, s, playerName, FALSE)],
                 gameRooms, timers, Detach(tasks, o, s),
                 {Msg("gameStateUpdate", Null, s, Null),
                  Msg("playerJoined", roomCode, Null, Null)}, FALSE)

JoinRoom(s, roomCode, playerName) ==
    /\ Handle(s, JoinRoomEffect(s, roomCode, playerName))
    /\ UNCHANGED <<sockets, live>>

TransferCreatorEffect(s, roomCode, newCreatorId) ==
    LET o == RoomOf(roomCode)
        res == TransferCreatorMethod(rooms[o], s, newCreatorId)
    IN  IF o = Null THEN Same({})
        ELSE Eff([rooms EXCEPT ![o] = res.room], gameRooms, timers, tasks,
                 IF res.ok THEN {Msg("creatorTransferred", roomCode, Null, Null)}
                 ELSE {}, FALSE)

TransferCreator(s, roomCode, newCreatorId) ==
    /\ Handle(s, TransferCreatorEffect(s, roomCode, newCreatorId))
    /\ UNCHANGED <<sockets, live>>

StartGameEffect(s, roomCode) ==
    LET o == RoomOf(roomCode)
        run == RunRound(rooms, o, ResetGame(rooms[o]), tasks, "startGame")
    IN  IF o = Null THEN Same({})
        ELSE Eff(run.rooms, gameRooms, timers, run.tasks, run.out, FALSE)

StartGame(s, roomCode) ==
    /\ (RoomOf(roomCode) # Null /\ NeedsTask(ResetGame(rooms[RoomOf(roomCode)])))
          => HasFreeTask
    /\ Handle(s, StartGameEffect(s, roomCode))
    /\ UNCHANGED <<sockets, live>>

\* selectStat without the test of currentPicker
SelectStatEffectOfAnyone(s, roomCode, stat) ==
    LET o == RoomOf(roomCode)
        gameState == EvaluateRound(rooms[o], stat)
        gameRoom == IF gameState.gameEnded THEN ClearAllPlayerNames(gameState.room)
                    ELSE gameState.room
    IN  IF o = Null THEN Same({})
        ELSE IF gameState.threw
        THEN Eff([rooms EXCEPT ![o] = gameState.room], gameRooms, timers, tasks, {}, TRUE)
        ELSE Eff([rooms EXCEPT ![o] = gameRoom], gameRooms,
                 IF gameState.gameEnded THEN timers
                 ELSE [timers EXCEPT ![o].selectStat = @ + 1],
                 tasks, {Msg("roundComplete", roomCode, Null, Null)}, FALSE)

SelectStatEffect(s, roomCode, stat) ==
    LET o == RoomOf(roomCode)
        gameState == EvaluateRound(rooms[o], stat)
        gameRoom == IF gameState.gameEnded THEN ClearAllPlayerNames(gameState.room)
                    ELSE gameState.room
    IN  IF o = Null THEN Same({})
        ELSE IF rooms[o].currentPicker # s THEN Same({})
        ELSE IF gameState.threw
        THEN Eff([rooms EXCEPT ![o] = gameState.room], gameRooms, timers, tasks, {}, TRUE)
        ELSE Eff([rooms EXCEPT ![o] = gameRoom], gameRooms,
                 IF gameState.gameEnded THEN timers
                 ELSE [timers EXCEPT ![o].selectStat = @ + 1],
                 tasks, {Msg("roundComplete", roomCode, Null, Null)}, FALSE)

\* setTimeout callbacks pending on GameRoom object o
Pending(o) == timers[o].selectStat + timers[o].rematch

\* the picker's selectStat is accepted
Accepted(s, roomCode) ==
    RoomOf(roomCode) # Null /\ rooms[RoomOf(roomCode)].currentPicker = s

SelectStat(s, roomCode, stat) ==
    /\ Accepted(s, roomCode) =>
          /\ \A i \in 1..Len(rooms[RoomOf(roomCode)].players) :
                rooms[RoomOf(roomCode)].players[i].score < MaxScore
          /\ Pending(RoomOf(roomCode)) < MaxTimers
    /\ Handle(s, SelectStatEffect(s, roomCode, stat))
    /\ UNCHANGED <<sockets, live>>

RematchEffect(s, roomCode) ==
    LET o == RoomOf(roomCode)
    IN  IF o = Null THEN Same({})
        ELSE Eff([rooms EXCEPT
                     ![o].currentRound = 0,
                     ![o].winners = <<>>,
                     ![o].players = [i \in 1..Len(@) |-> [@[i] EXCEPT !.score = 0]]],
                 gameRooms, [timers EXCEPT ![o].rematch = @ + 1], tasks,
                 {Msg("gameReset", roomCode, Null, Null)}, FALSE)

Rematch(s, roomCode) ==
    /\ RoomOf(roomCode) # Null => Pending(RoomOf(roomCode)) < MaxTimers
    /\ Handle(s, RematchEffect(s, roomCode))
    /\ UNCHANGED <<sockets, live>>

\* what leaveRoom and disconnect do to the room object o the socket s is taken from
Depart(o, s) ==
    LET room == rooms[o]
        wasCreator == Has(room.players, s) /\ Get(room.players, s).isCreator
        removed == RemovePlayer(ClearPlayerName(room, s), s)
        assigned == IF wasCreator THEN AssignNewCreator(removed).room ELSE removed
    IN  IF Len(removed.players) = 0
        THEN Eff([rooms EXCEPT ![o] = removed], SelectSeq(gameRooms, LAMBDA x : x # o),
                 timers, Detach(tasks, o, s), {}, FALSE)
        ELSE Eff([rooms EXCEPT ![o] = assigned], gameRooms, timers, Detach(tasks, o, s),
                 {Msg("playerLeft", room.code, Null, Null)}, FALSE)

LeaveRoomEffect(s, roomCode) ==
    IF RoomOf(roomCode) = Null THEN Same({}) ELSE Depart(RoomOf(roomCode), s)

LeaveRoom(s, roomCode) ==
    /\ Handle(s, LeaveRoomEffect(s, roomCode))
    /\ UNCHANGED <<sockets, live>>

\* kickPlayer without the test of gameRoom.creator
KickPlayerEffectByAnyone(s, roomCode, playerId) ==
    LET o == RoomOf(roomCode)
    IN  IF o = Null THEN Same({})
        ELSE Eff([rooms EXCEPT ![o] = RemovePlayer(ClearPlayerName(@, playerId), playerId)],
                 gameRooms, timers, Detach(tasks, o, playerId),
                 {Msg("playerKicked", roomCode, Null, Null),
                  Msg("youWereKicked", Null, playerId, Null)}, FALSE)

KickPlayerEffect(s, roomCode, playerId) ==
    LET o == RoomOf(roomCode)
    IN  IF o = Null THEN Same({})
        ELSE IF rooms[o].creator # s THEN Same({})
        ELSE Eff([rooms EXCEPT ![o] = RemovePlayer(ClearPlayerName(@, playerId), playerId)],
                 gameRooms, timers, Detach(tasks, o, playerId),
                 {Msg("playerKicked", roomCode, Null, Null),
                  Msg("youWereKicked", Null, playerId, Null)}, FALSE)

KickPlayer(s, roomCode, playerId) ==
    /\ Handle(s, KickPlayerEffect(s, roomCode, playerId))
    /\ UNCHANGED <<sockets, live>>

\* socket.on("disconnect"): only the first room that holds the socket is handled
DisconnectEffect(s) ==
    LET hits == {i \in 1..Len(gameRooms) : Has(rooms[gameRooms[i]].players, s)}
    IN  IF hits = {} THEN Same({})
        ELSE Depart(gameRooms[CHOOSE i \in hits : \A j \in hits : i <= j], s)

Disconnect(s) ==
    /\ ~crashed
    /\ s \in live
    /\ Commit(DisconnectEffect(s))
    /\ live' = live \ {s}
    /\ UNCHANGED <<sockets, events>>

\* a setTimeout callback of selectStat or rematch runs startNewRound
TimerFireEffect(o, kind) ==
    LET run == RunRound(rooms, o, rooms[o], tasks, "setTimeout")
    IN  Eff(run.rooms, gameRooms, [timers EXCEPT ![o][kind] = @ - 1], run.tasks,
            run.out, FALSE)

TimerFire(o, kind) ==
    /\ ~crashed
    /\ timers[o][kind] > 0
    /\ rooms[o].currentRound < MaxRound
    /\ NeedsTask(rooms[o]) => HasFreeTask
    /\ Commit(TimerFireEffect(o, kind))
    /\ UNCHANGED <<sockets, live, events>>

\* await fetchRandomPokemon() resolves with a card and the loop goes on; an
\* absent player makes startNewRound reject, which nothing handles (dead: the
\* runtime ends the process on an unhandled rejection, or only warns)
FetchDoneEffect(t, card, dead) ==
    LET o == tasks[t].room
        room == rooms[o]
        drawn == IF tasks[t].cur # Orphan
                 THEN [room EXCEPT
                         !.players[Pos(room.players, tasks[t].cur)].pokemon = card]
                 ELSE room
        nxt == NextFetch(drawn.players, tasks[t].queue, tasks[t].tieBreak)
    IN  IF nxt.kind = "done"
        THEN Eff([rooms EXCEPT ![o] = FinishRound(drawn)], gameRooms, timers,
                 [tasks EXCEPT ![t] = NoTask], {RoundStarted(drawn)}, FALSE)
        ELSE IF nxt.kind = "await"
        THEN Eff([rooms EXCEPT ![o] = drawn], gameRooms, timers,
                 [tasks EXCEPT ![t] = [@ EXCEPT !.cur = nxt.cur, !.queue = nxt.queue]],
                 {}, FALSE)
        ELSE Eff([rooms EXCEPT ![o] = drawn], gameRooms, timers,
                 [tasks EXCEPT ![t] = NoTask], {}, dead)

FetchDone(t, card, dead) ==
    /\ ~crashed
    /\ tasks[t].room # Null
    /\ Commit(FetchDoneEffect(t, card, dead))
    /\ UNCHANGED <<sockets, live, events>>

\* axios.get rejects: startNewRound rejects and nothing handles the rejection;
\* the rejection reaching the startNewRound that handler result e left suspended
\* as task t: the invocation ends there, nothing is undone
FetchFailAfter(e, t, dead) ==
    [e EXCEPT !.tasks = [e.tasks EXCEPT ![t] = NoTask], !.out = {}, !.dead = dead]

FetchFailEffect(t, dead) == FetchFailAfter(Same({}), t, dead)

FetchFail(t, dead) ==
    /\ ~crashed
    /\ tasks[t].room # Null
    /\ events < MaxEvents
    /\ events' = events + 1
    /\ Commit(FetchFailEffect(t, dead))
    /\ UNCHANGED <<sockets, live>>

\* ---------------------------------------------------------------- inputs
CreateSettings == [roundsToWin : {Null} \cup 1..MaxRoundsToWin, maxWinners : {Null}]

SettingsChoices ==
    [roundsToWin : {Null} \cup 1..MaxRoundsToWin, maxWinners : {Null} \cup 2..MaxMaxWinners]

Next ==
    \/ Connect
    \/ \E s \in SocketIds, n \in CreatorNames, st \in CreateSettings, c \in Codes :
            CreateRoom(s, n, st, c)
    \/ \E s \in SocketIds, c \in Codes, st \in SettingsChoices : UpdateSettings(s, c, st)
    \/ \E s \in SocketIds, c \in Codes, n \in Names : JoinRoom(s, c, n)
    \/ \E s \in SocketIds, c \in Codes, p \in SocketIds : TransferCreator(s, c, p)
    \/ \E s \in SocketIds, c \in Codes : StartGame(s, c)
    \/ \E s \in SocketIds, c \in Codes, stat \in Stats : SelectStat(s, c, stat)
    \/ \E s \in SocketIds, c \in Codes : Rematch(s, c)
    \/ \E s \in SocketIds, c \in Codes : LeaveRoom(s, c)
    \/ \E s \in SocketIds, c \in Codes, p \in SocketIds : KickPlayer(s, c, p)
    \/ \E s \in SocketIds : Disconnect(s)
    \/ \E o \in ObjIds, kind \in {"selectStat", "rematch"} : TimerFire(o, kind)
    \/ \E t \in 1..MaxTasks, card \in Drawn, dead \in BOOLEAN : FetchDone(t, card, dead)
    \/ \E t \in 1..MaxTasks, dead \in BOOLEAN : FetchFail(t, dead)

Spec == Init /\ [][Next]_vars

\* ------------------------------------------------- server.js: its own code
\* server.js holds the same class and handlers except where it keeps the names
\* in one global Set, joins and leaves, and has no creator transfer. Its rooms
\* have no playerNames; the field stays empty.
\* a client event reaches its handler in server.js
HandleServer(s, e) ==
    /\ ~crashed
    /\ s \in live
    /\ events < MaxServerEvents
    /\ events' = events + 1
    /\ Commit(e)

CheckNameExists(name) == ToLower(name) \in activePlayers

AddPlayerServer(room, playerId, playerName, isCreator) ==
    [room EXCEPT
        !.players = MapSet(@, [id |-> playerId, name |-> playerName, score |-> 0,
                               pokemon |-> NoCard, isCreator |-> isCreator]),
        !.creator = IF isCreator THEN playerId ELSE @]

\* what activePlayers.delete(player.name.toLowerCase()) removes for playerId
NameOfPlayer(room, playerId) ==
    IF Has(room.players, playerId)
    THEN {ToLower(Get(room.players, playerId).name)} ELSE {}

RemovePlayerServer(room, playerId) == [room EXCEPT !.players = MapDelete(@, playerId)]

ClearAllPlayerNamesServer(room) ==
    activePlayers \ {ToLower(room.players[i].name) : i \in 1..Len(room.players)}

AddNameEffect(s, name) ==
    [Same({Msg("callback", Null, s, Null)}) EXCEPT
        !.activePlayers = activePlayers \cup {ToLower(name)}]

AddName(s, name) ==
    /\ HandleServer(s, AddNameEffect(s, name))
    /\ UNCHANGED <<sockets, live>>

CheckNameEffect(s, name) ==
    Same({Msg(IF CheckNameExists(name) THEN "exists" ELSE "free", Null, s, Null)})

CheckName(s, name) ==
    /\ HandleServer(s, CheckNameEffect(s, name))
    /\ UNCHANGED <<sockets, live>>

CreateRoomServerEffect(s, playerName, settings, roomCode) ==
    LET o == CHOOSE x \in FreeObjs(roomCode) : \A y \in FreeObjs(roomCode) : x <= y
        gameRoom == AddPlayerServer(NewGameRoom(roomCode, settings), s, playerName, TRUE)
    IN  [Eff([rooms EXCEPT ![o] = gameRoom], RegistrySet(gameRooms, roomCode, o),
             timers, tasks, {Msg("roomCreated", Null, s, Null)}, FALSE)
         EXCEPT !.activePlayers = activePlayers \cup {ToLower(playerName)}]

CreateRoomServer(s, playerName, settings, roomCode) ==
    /\ roomCode \in CodeChoices
    /\ FreeObjs(roomCode) # {}
    /\ HandleServer(s, CreateRoomServerEffect(s, playerName, settings, roomCode))
    /\ UNCHANGED <<sockets, live>>

\* socket.on("joinRoom") of server.js: the player is added whatever its name
JoinRoomServerEffect(s, roomCode, playerName) ==
    LET o == RoomOf(roomCode)
    IN  IF o = Null THEN Same({Msg("error", Null, s, Null)})
        ELSE [Eff([rooms EXCEPT ![o] = AddPlayerServer(@, s, playerName, FALSE)],
                  gameRooms, timers, Detach(tasks, o, s),
                  {Msg("gameStateUpdate", Null, s, Null),
                   Msg("playerJoined", roomCode, Null, Null)}, FALSE)
              EXCEPT !.activePlayers = activePlayers \cup {ToLower(playerName)}]

JoinRoomServer(s, roomCode, playerName) ==
    /\ HandleServer(s, JoinRoomServerEffect(s, roomCode, playerName))
    /\ UNCHANGED <<sockets, live>>

SelectStatServerEffect(s, roomCode, stat) ==
    LET o == RoomOf(roomCode)
        gameState == EvaluateRound(rooms[o], stat)
    IN  IF o = Null THEN Same({})
        ELSE IF rooms[o].currentPicker # s THEN Same({})
        ELSE IF gameState.threw
        THEN Eff([rooms EXCEPT ![o] = gameState.room], gameRooms, timers, tasks, {}, TRUE)
        ELSE [Eff([rooms EXCEPT ![o] = gameState.room], gameRooms,
                  IF gameState.gameEnded THEN timers
                  ELSE [timers EXCEPT ![o].selectStat = @ + 1],
                  tasks, {Msg("roundComplete", roomCode, Null, Null)}, FALSE)
              EXCEPT !.activePlayers =
                  IF gameState.gameEnded THEN ClearAllPlayerNamesServer(gameState.room)
                  ELSE activePlayers]

SelectStatServer(s, roomCode, stat) ==
    /\ Accepted(s, roomCode) =>
          /\ \A i \in 1..Len(rooms[RoomOf(roomCode)].players) :
                rooms[RoomOf(roomCode)].players[i].score < MaxScore
          /\ Pending(RoomOf(roomCode)) < MaxTimers
    /\ HandleServer(s, SelectStatServerEffect(s, roomCode, stat))
    /\ UNCHANGED <<sockets, live>>

\* socket.on("leaveRoom") of server.js: no new creator is assigned
LeaveRoomServerEffect(s, roomCode) ==
    LET o == RoomOf(roomCode)
        removed == RemovePlayerServer(rooms[o], s)
    IN  IF o = Null THEN Same({})
        ELSE [Eff([rooms EXCEPT ![o] = removed],
                  IF Len(removed.players) = 0
                  THEN SelectSeq(gameRooms, LAMBDA x : x # o) ELSE gameRooms,
                  timers, Detach(tasks, o, s),
                  IF Len(removed.players) = 0 THEN {}
                  ELSE {Msg("playerLeft", roomCode, Null, Null)}, FALSE)
              EXCEPT !.activePlayers = activePlayers \ NameOfPlayer(rooms[o], s)]

LeaveRoomServer(s, roomCode) ==
    /\ HandleServer(s, LeaveRoomServerEffect(s, roomCode))
    /\ UNCHANGED <<sockets, live>>

KickPlayerServerEffect(s, roomCode, playerId) ==
    LET o == RoomOf(roomCode)
    IN  IF o = Null THEN Same({})
        ELSE IF rooms[o].creator # s THEN Same({})
        ELSE [Eff([rooms EXCEPT ![o] = RemovePlayerServer(@, playerId)],
                  gameRooms, timers, Detach(tasks, o, playerId),
                  {Msg("playerKicked", roomCode, Null, Null),
                   Msg("youWereKicked", Null, playerId, Null)}, FALSE)
              EXCEPT !.activePlayers = activePlayers \ NameOfPlayer(rooms[o], playerId)]

KickPlayerServer(s, roomCode, playerId) ==
    /\ HandleServer(s, KickPlayerServerEffect(s, roomCode, playerId))
    /\ UNCHANGED <<sockets, live>>

\* socket.on("disconnect") of server.js: the first room that holds the socket
\* loses it and stays registered even when empty
DisconnectServerEffect(s) ==
    LET hits == {i \in 1..Len(gameRooms) : Has(rooms[gameRooms[i]].players, s)}
        o == gameRooms[CHOOSE i \in hits : \A j \in hits : i <= j]
    IN  IF hits = {} THEN Same({})
        ELSE [Eff([rooms EXCEPT ![o] = RemovePlayerServer(@, s)], gameRooms, timers,
                  Detach(tasks, o, s), {}, FALSE)
              EXCEPT !.activePlayers = activePlayers \ NameOfPlayer(rooms[o], s)]

DisconnectServer(s) ==
    /\ ~crashed
    /\ s \in live
    /\ Commit(DisconnectServerEffect(s))
    /\ live' = live \ {s}
    /\ UNCHANGED <<sockets, events>>

\* the handlers server.js shares word for word
UpdateSettingsServer(s, roomCode, settings) ==
    /\ HandleServer(s, UpdateSettingsEffect(s, roomCode, settings))
    /\ UNCHANGED <<sockets, live>>

StartGameServer(s, roomCode) ==
    /\ (RoomOf(roomCode) # Null /\ NeedsTask(ResetGame(rooms[RoomOf(roomCode)])))
          => HasFreeTask
    /\ HandleServer(s, StartGameEffect(s, roomCode))
    /\ UNCHANGED <<sockets, live>>

RematchServer(s, roomCode) ==
    /\ RoomOf(roomCode) # Null => Pending(RoomOf(roomCode)) < MaxTimers
    /\ HandleServer(s, RematchEffect(s, roomCode))
    /\ UNCHANGED <<sockets, live>>

FetchFailServer(t, dead) ==
    /\ ~crashed
    /\ tasks[t].room # Null
    /\ events < MaxServerEvents
    /\ events' = events + 1
    /\ Commit(FetchFailEffect(t, dead))
    /\ UNCHANGED <<sockets, live>>

NextServer ==
    \/ Connect
    \/ \E s \in SocketIds, n \in Names : AddName(s, n)
    \/ \E s \in SocketIds, n \in Names : CheckName(s, n)
    \/ \E s \in SocketIds, c \in Codes, st \in SettingsChoices : UpdateSettingsServer(s, c, st)
    \/ \E s \in SocketIds, n \in CreatorNames, st \in CreateSettings, c \in Codes :
            CreateRoomServer(s, n, st, c)
    \/ \E s \in SocketIds, c \in Codes, n \in Names : JoinRoomServer(s, c, n)
    \/ \E s \in SocketIds, c \in Codes : StartGameServer(s, c)
    \/ \E s \in SocketIds, c \in Codes, stat \in Stats : SelectStatServer(s, c, stat)
    \/ \E s \in SocketIds, c \in Codes : RematchServer(s, c)
    \/ \E s \in SocketIds, c \in Codes : LeaveRoomServer(s, c)
    \/ \E s \in SocketIds, c \in Codes, p \in SocketIds : KickPlayerServer(s, c, p)
    \/ \E s \in SocketIds : DisconnectServer(s)
    \/ \E o \in ObjIds, kind \in {"selectStat", "rematch"} : TimerFire(o, kind)
    \/ \E t \in 1..MaxTasks, card \in Drawn, dead \in BOOLEAN : FetchDone(t, card, dead)
    \/ \E t \in 1..MaxTasks, dead \in BOOLEAN : FetchFailServer(t, dead)

SpecServer == Init /\ [][NextServer]_vars

\* ------------------------------------------- one method on one room alone
PoolIds == 1..MaxPool

PoolNames == <<"a", "b", "c", "d", "e">>

\* the rosters of up to MaxPool players, in every join order
Rosters ==
    {r \in UNION {[1..n -> PoolIds] : n \in 0..MaxPool} :
        \A i, j \in 1..Len(r) : r[i] = r[j] => i = j}

RECURSIVE Ascending(_)
Ascending(S) ==
    IF S = {} THEN <<>>
    ELSE LET least == CHOOSE x \in S : \A y \in S : x <= y
         IN  <<least>> \o Ascending(S \ {least})

\* a room between two rounds: some players have won, some have left
RoomBetweenRounds(roster, won, picker) ==
    [NewGameRoom(1, [roundsToWin |-> Null, maxWinners |-> Null]) EXCEPT
        !.players = [i \in 1..Len(roster) |->
                        [id |-> roster[i], name |-> PoolNames[roster[i]], score |-> 0,
                         pokemon |-> NoCard, isCreator |-> i = 1]],
        !.playerNames = {PoolNames[roster[i]] : i \in 1..Len(roster)},
        !.creator = IF Len(roster) > 0 THEN roster[1] ELSE Null,
        !.winners = Ascending(won),
        !.currentPicker = picker]

InitPicker ==
    /\ sockets = MaxPool
    /\ live = PoolIds
    /\ gameRooms = <<1>>
    /\ \E roster \in Rosters, won \in SUBSET PoolIds, picker \in PoolIds \cup {Null} :
          rooms = [o \in ObjIds |->
                      IF o = 1 THEN RoomBetweenRounds(roster, won, picker) ELSE NoRoom]
    /\ timers = [o \in ObjIds |-> NoTimers]
    /\ tasks = [t \in 1..MaxTasks |-> NoTask]
    /\ crashed = FALSE
    /\ activePlayers = {}
    /\ events = 0

\* startNewRound: this.currentPicker = this.getNextPicker()
PickNext ==
    /\ rooms' = [rooms EXCEPT ![1].currentPicker = GetNextPicker(rooms[1])]
    /\ UNCHANGED <<sockets, live, gameRooms, timers, tasks, crashed, activePlayers, events>>

NextPicker == PickNext

SpecPicker == InitPicker /\ [][NextPicker]_vars

\* ================================================================ claims
Registered == Range(gameRooms)

Alive == {o \in ObjIds : rooms[o] # NoRoom}

NoDuplicates(seq) == \A i, j \in 1..Len(seq) : seq[i] = seq[j] => i = j

Flagged(room) == {i \in 1..Len(room.players) : room.players[i].isCreator}

\* C1: while the round advancement scheduled by an accepted select-stat is
\* still pending on a room, a further select-stat for that room takes no
\* effect: no evaluation (no score change) and no second advancement.
C1_OneEvaluationPerRound ==
    \A c \in Codes, s \in live, stat \in Stats :
        (RoomOf(c) # Null /\ timers[RoomOf(c)].selectStat > 0)
            => LET e == SelectStatEffect(s, c, stat)
               IN  e.rooms = rooms /\ e.timers = timers /\ ~e.dead

\* C2: in every room of the registry, winners holds no session id twice and
\* only session ids that are keys of the roster.
C2_WinnersInRoster ==
    \A o \in Registered :
        /\ NoDuplicates(rooms[o].winners)
        /\ Range(rooms[o].winners) \subseteq Range(Keys(rooms[o].players))

\* C3: a room with a non-empty roster has exactly one player with
\* isCreator = TRUE, and the creator pointer names that player.
C3_ExactlyOneCreator ==
    \A o \in Registered :
        Len(rooms[o].players) > 0
            => /\ Cardinality(Flagged(rooms[o])) = 1
               /\ Has(rooms[o].players, rooms[o].creator)
               /\ Get(rooms[o].players, rooms[o].creator).isCreator

\* C4: in every room at most one roster player has isCreator = TRUE, and a
\* room with an empty roster has none.
C4_AtMostOneCreator ==
    \A o \in Alive :
        /\ Cardinality(Flagged(rooms[o])) <= 1
        /\ Len(rooms[o].players) = 0 => Flagged(rooms[o]) = {}

\* a room whose creator flag sits on a player who is not first in the roster:
\* the flag has moved since createRoom
C4_Witness ==
    \E o \in Registered :
        /\ Len(rooms[o].players) >= 2
        /\ \E i \in 2..Len(rooms[o].players) : rooms[o].players[i].isCreator

NamesUnique(room) ==
    \A i, j \in 1..Len(room.players) :
        ToLower(room.players[i].name) = ToLower(room.players[j].name) => i = j

NamesReserved(room) ==
    \A i \in 1..Len(room.players) : ToLower(room.players[i].name) \in room.playerNames

\* C5 as stated: no two roster players of a room have names equal ignoring
\* case, and every name in use is in the room's reservation set.
C5_NamesUniqueAndReserved ==
    \A o \in Registered : NamesUnique(rooms[o]) /\ NamesReserved(rooms[o])

\* C5 as amended: no two roster players of a room have names equal ignoring
\* case, and every name in use is in the room's reservation set as long as no
\* game end has released the room's reservations.
C5_NamesUniqueReservedUntilGameEnd ==
    \A o \in Registered :
        /\ NamesUnique(rooms[o])
        /\ ~rooms[o].namesCleared => NamesReserved(rooms[o])

\* a room of two players, one of them under an upper-case name, with its
\* reservations intact
C5_Witness ==
    \E o \in Registered :
        /\ Len(rooms[o].players) = 2
        /\ ~rooms[o].namesCleared
        /\ \E i \in 1..2 : rooms[o].players[i].name = "A"
        /\ rooms[o].playerNames = {"a", "b"}

\* a join-room request of socket s that names the stale roster entry x of room c
StaleJoin(s, c, n, x) ==
    /\ RoomOf(c) # Null
    /\ x # Null
    /\ x = ExistingPlayerId(rooms[RoomOf(c)], n)
    /\ x \notin live

LiveNameJoin(s, c, n) ==
    /\ RoomOf(c) # Null
    /\ ExistingPlayerId(rooms[RoomOf(c)], n) # Null
    /\ ExistingPlayerId(rooms[RoomOf(c)], n) \in live

\* what a rejected request leaves: an error to the requester only, nothing changed
Rejected(e, s) ==
    /\ e.out = {Msg("error", Null, s, Null)}
    /\ e.rooms = rooms
    /\ e.gameRooms = gameRooms
    /\ e.timers = timers
    /\ e.tasks = tasks
    /\ ~e.dead

\* C7: a join-room request whose name matches, ignoring case, the roster entry
\* of a session that is still live is answered with an error to the requester
\* only and changes nothing of the room (roster, names, creator, scores,
\* round state). Here for the joinRoom handler of server.js.
C7_LiveNameRejected ==
    \A c \in Codes, s \in live, n \in Names :
        LiveNameJoin(s, c, n) => Rejected(JoinRoomServerEffect(s, c, n), s)

\* the same for the joinRoom handler that has the duplicate check
LiveNameRejectedByCheck ==
    \A c \in Codes, s \in live, n \in Names :
        LiveNameJoin(s, c, n) => Rejected(JoinRoomEffect(s, c, n), s)

\* C8: settings.maxWinners is at most 1 when the roster has at most 2
\* players and at most min(rosterSize - 1, 3) otherwise.
C8_MaxWinnersClamped ==
    \A o \in Registered :
        LET n == Len(rooms[o].players)
        IN  IF n <= 2 THEN rooms[o].settings.maxWinners <= 1
            ELSE /\ rooms[o].settings.maxWinners <= n - 1
                 /\ rooms[o].settings.maxWinners <= 3

\* C9: currentPicker, when set, is not a member of winners.
C9_PickerNotWinner ==
    \A o \in Registered :
        rooms[o].currentPicker # Null
            => ~Includes(rooms[o].winners, rooms[o].currentPicker)

PoolValue(room, id, stat) == StatValue(Get(room.players, id).pokemon, stat).val

\* the pool members that hold the pool's maximum, in roster order
BestOfPool(room, pool, stat) ==
    SelectSeq(pool, LAMBDA id :
        \A j \in 1..Len(pool) : PoolValue(room, id, stat) >= PoolValue(room, pool[j], stat))

\* C10: whenever the picker's select-stat of a recognized stat reaches
\* evaluateRound, it returns as roundWinners the pool members that hold the
\* pool's maximum, in roster order, and (outside tie-breaker mode) adds exactly
\* 1 to the score of roundWinners[0] and leaves every other score unchanged.
C10_EvaluateRound ==
    \A o \in Registered, stat \in {"hp", "attack"} :
        rooms[o].currentPicker \in live
            => LET room == rooms[o]
                   res == EvaluateRound(room, stat)
               IN  /\ ~res.threw
                   /\ res.roundWinners = BestOfPool(room, PlayersToEvaluate(room), stat)
                   /\ Keys(res.room.players) = Keys(room.players)
                   /\ \A i \in 1..Len(room.players) :
                        res.room.players[i].score =
                            room.players[i].score +
                            (IF ~room.inTieBreaker /\ res.roundWinners # <<>>
                                /\ room.players[i].id = res.roundWinners[1]
                             THEN 1 ELSE 0)

\* C10 on the pools whose members all hold a card
EvaluateRoundOnCards ==
    \A o \in Registered, stat \in {"hp", "attack"} :
        (rooms[o].currentPicker \in live /\ ~EvaluateThrows(rooms[o]))
            => LET room == rooms[o]
                   res == EvaluateRound(room, stat)
               IN  /\ res.roundWinners = BestOfPool(room, PlayersToEvaluate(room), stat)
                   /\ \A i \in 1..Len(room.players) :
                        res.room.players[i].score =
                            room.players[i].score +
                            (IF ~room.inTieBreaker /\ res.roundWinners # <<>>
                                /\ room.players[i].id = res.roundWinners[1]
                             THEN 1 ELSE 0)

\* the position of id in the roster
RosterPos(room, id) == Pos(room.players, id)

\* the roster members that are not winners
ActiveSet(room) == Range(Keys(room.players)) \ Range(room.winners)

\* the member of S that comes first in roster order
FirstOf(room, S) == CHOOSE a \in S : \A b \in S : RosterPos(room, a) <= RosterPos(room, b)

\* C11: getNextPicker returns no one when there is no active player; the
\* first active player in roster order when the current picker is absent, a
\* winner or not active; otherwise the next active player after the picker in
\* roster order, wrapping from the last to the first.
C11_NextPickerRotation ==
    \A o \in Registered :
        LET room == rooms[o]
            A == ActiveSet(room)
            later == {a \in A : RosterPos(room, a) > RosterPos(room, room.currentPicker)}
        IN  GetNextPicker(room) =
                IF A = {} THEN Null
                ELSE IF room.currentPicker = Null \/ room.currentPicker \notin A
                THEN FirstOf(room, A)
                ELSE IF later # {} THEN FirstOf(room, later)
                ELSE FirstOf(room, A)

\* roster [1, 2, 3] where 3 has won and 2 picks: the rotation wraps to 1
C11_Witness ==
    /\ Keys(rooms[1].players) = <<1, 2, 3>>
    /\ rooms[1].winners = <<3>>
    /\ rooms[1].currentPicker = 2
    /\ GetNextPicker(rooms[1]) = 1

\* a join-room request by which the stale winner x of room c comes back as y
WinnerReconnects(y, c, n, x) ==
    StaleJoin(y, c, n, x) /\ Includes(rooms[RoomOf(c)].winners, x)

\* no startNewRound suspended on room object o is drawing or about to draw for id
NotDrawingFor(o, id) ==
    \A t \in 1..MaxTasks :
        tasks[t].room = o => tasks[t].cur # id /\ ~Includes(tasks[t].queue, id)

\* C12: a player in winners is not chosen as next picker, is in no evaluation
\* pool and is dealt no card, and stays so when the player comes back under a
\* new session id through the reconnection branch of join-room.
C12_WinnersStayExcluded ==
    /\ \A o \in Registered : \A i \in 1..Len(rooms[o].winners) :
          LET w == rooms[o].winners[i]
          IN  /\ GetNextPicker(rooms[o]) # w
              /\ ~Includes(PlayersToEvaluate(rooms[o]), w)
              /\ ~Includes(RoundQueue(rooms[o]), w)
    /\ \A c \in Codes, y \in live, n \in Names, x \in SocketIds :
          WinnerReconnects(y, c, n, x)
              => LET after == JoinRoomEffect(y, c, n).rooms[RoomOf(c)]
                 IN  /\ GetNextPicker(after) # y
                     /\ ~Includes(PlayersToEvaluate(after), y)
                     /\ ~Includes(RoundQueue(after), y)

\* C12, for the draws in progress: no suspended startNewRound holds a winner
WinnersNotDrawnFor ==
    \A o \in Registered : \A i \in 1..Len(rooms[o].winners) :
        NotDrawingFor(o, rooms[o].winners[i])

\* a handler that did nothing: no state change, no message, no exception
NoOp(e) ==
    /\ e.out = {}
    /\ e.rooms = rooms
    /\ e.gameRooms = gameRooms
    /\ e.timers = timers
    /\ e.tasks = tasks
    /\ ~e.dead

\* C13: a select-stat event of a session that is not the room's current
\* picker changes nothing (score, winners, lastSelectedStat, round state),
\* broadcasts nothing and schedules no round advancement.
C13_OnlyPickerSelects ==
    \A c \in Codes, s \in live, stat \in Stats :
        (RoomOf(c) # Null /\ rooms[RoomOf(c)].currentPicker # s)
            => NoOp(SelectStatEffect(s, c, stat))

\* a round is running with both players holding a card, and the player who
\* is not the picker is connected
C13_Witness ==
    \E o \in Registered, s \in live :
        /\ Has(rooms[o].players, s)
        /\ rooms[o].currentPicker # Null
        /\ rooms[o].currentPicker # s
        /\ Len(rooms[o].players) = 2
        /\ \A i \in 1..2 : rooms[o].players[i].pokemon # NoCard

\* C14: no room of the registry has an empty roster.
C14_NoEmptyRoomRegistered ==
    \A o \in Registered : Len(rooms[o].players) > 0

\* C15: a transfer-creator event of session s for target p succeeds exactly
\* when s is the room's creator and s and p are both in the roster; then p is
\* the only player with isCreator = TRUE and the creator pointer is p (also
\* for p = s) and creatorTransferred is broadcast; otherwise nothing changes
\* and nothing is broadcast.
C15_TransferCreator ==
    \A c \in Codes, s \in live, p \in SocketIds :
        RoomOf(c) # Null
            => LET room == rooms[RoomOf(c)]
                   e == TransferCreatorEffect(s, c, p)
                   after == e.rooms[RoomOf(c)]
               IN  IF room.creator = s /\ Has(room.players, s) /\ Has(room.players, p)
                   THEN /\ Flagged(after) = {Pos(after.players, p)}
                        /\ after.creator = p
                        /\ after = [room EXCEPT !.players = after.players, !.creator = p]
                        /\ Keys(after.players) = Keys(room.players)
                        /\ e.out = {Msg("creatorTransferred", c, Null, Null)}
                   ELSE NoOp(e)

\* the creator flag and pointer are on the second player of a room, who is
\* connected, next to a first player who is connected too
C15_Witness ==
    \E o \in Registered :
        /\ Len(rooms[o].players) = 2
        /\ rooms[o].creator = rooms[o].players[2].id
        /\ rooms[o].players[2].isCreator
        /\ ~rooms[o].players[1].isCreator
        /\ Range(Keys(rooms[o].players)) \subseteq live

\* C16: a kick-player event of a session that is not the room's creator
\* changes nothing (roster, name reservations, creator, round state) and emits
\* neither playerKicked nor youWereKicked; for the handler of either server file.
C16_KickNeedsCreator ==
    \A c \in Codes, s \in live, p \in SocketIds :
        (RoomOf(c) # Null /\ rooms[RoomOf(c)].creator # s)
            => /\ NoOp(KickPlayerEffect(s, c, p))
               /\ NoOp(KickPlayerServerEffect(s, c, p))
               /\ KickPlayerServerEffect(s, c, p).activePlayers = activePlayers

\* a room of two connected players: the one who is not the creator could ask
\* to kick the creator
C16_Witness ==
    \E o \in Registered, s \in live :
        /\ Len(rooms[o].players) = 2
        /\ Has(rooms[o].players, s)
        /\ rooms[o].creator # s
        /\ rooms[o].creator \in live
        /\ Has(rooms[o].players, rooms[o].creator)

\* C17: a start-game or update-settings event of a session that is not the
\* room's creator changes no room state (scores, winners, round counter,
\* cards, settings) and broadcasts nothing.
C17_CreatorOnlyStartAndSettings ==
    \A c \in Codes, s \in live :
        (RoomOf(c) # Null /\ rooms[RoomOf(c)].creator # s)
            => /\ \A st \in SettingsChoices : NoOp(UpdateSettingsEffect(s, c, st))
               /\ (NeedsTask(ResetGame(rooms[RoomOf(c)])) => HasFreeTask)
                     => NoOp(StartGameEffect(s, c))

\* start-game alone, asked by a session that is not the creator
StartGameNeedsCreator ==
    \A c \in Codes, s \in live :
        (/\ RoomOf(c) # Null
         /\ rooms[RoomOf(c)].creator # s
         /\ NeedsTask(ResetGame(rooms[RoomOf(c)])) => HasFreeTask)
            => NoOp(StartGameEffect(s, c))

\* C18: a select-stat of the picker that names no recognized stat, or that
\* finds the evaluation pool empty, mutates nothing (lastSelectedStat, scores,
\* winners), broadcasts no roundComplete and schedules no next round.
C18_InvalidStatRejected ==
    \A c \in Codes, s \in live, stat \in Stats :
        (/\ Accepted(s, c)
         /\ stat \notin {"hp", "attack"} \/ PlayersToEvaluate(rooms[RoomOf(c)]) = <<>>)
            => LET e == SelectStatEffect(s, c, stat)
               IN  /\ e.rooms = rooms
                   /\ e.timers = timers
                   /\ Msg("roundComplete", c, Null, Null) \notin e.out

\* C19: when the disconnect of a session has been handled, the session is in
\* the roster of no room of the registry.
C19_DisconnectLeavesEveryRoom ==
    \A s \in live :
        LET e == DisconnectEffect(s)
        IN  \A i \in 1..Len(e.gameRooms) : ~Has(e.rooms[e.gameRooms[i]].players, s)

\* the events that act on a room: leave, kick, disconnect, join, select-stat,
\* start-game, rematch, each left without effect on room object o
RoomUntouched(o) ==
    LET c == rooms[o].code
    IN  \A s \in live :
            /\ LeaveRoomEffect(s, c).rooms[o] = rooms[o]
            /\ DisconnectEffect(s).rooms[o] = rooms[o]
            /\ \A p \in SocketIds : KickPlayerEffect(s, c, p).rooms[o] = rooms[o]
            /\ \A n \in Names : JoinRoomEffect(s, c, n).rooms[o] = rooms[o]
            /\ \A stat \in Stats : SelectStatEffect(s, c, stat).rooms[o] = rooms[o]
            /\ RematchEffect(s, c).rooms[o] = rooms[o]
            /\ HasFreeTask => StartGameEffect(s, c).rooms[o] = rooms[o]

\* C20: while a startNewRound is suspended in a card fetch on a room, no other
\* event is applied to that room, and the player it draws for and the players
\* it has yet to draw for are all in the roster.
C20_RoundAdvancementExclusive ==
    \A t \in 1..MaxTasks :
        (tasks[t].room # Null /\ Includes(gameRooms, tasks[t].room))
            => /\ tasks[t].cur # Orphan
               /\ Has(rooms[tasks[t].room].players, tasks[t].cur)
               /\ \A i \in 1..Len(tasks[t].queue) :
                     Has(rooms[tasks[t].room].players, tasks[t].queue[i])
               /\ RoomUntouched(tasks[t].room)

\* the second half alone: the roster entries of a suspended draw all exist
DrawnPlayersExist ==
    \A t \in 1..MaxTasks :
        (tasks[t].room # Null /\ Includes(gameRooms, tasks[t].room))
            => /\ tasks[t].cur # Orphan
               /\ \A i \in 1..Len(tasks[t].queue) :
                     Has(rooms[tasks[t].room].players, tasks[t].queue[i])

\* what the claim names of a room: picker, round, winners, scores and cards
RoundState(room) ==
    [currentPicker |-> room.currentPicker,
     currentRound |-> room.currentRound,
     winners |-> room.winners,
     players |-> [i \in 1..Len(room.players) |->
                     [id |-> room.players[i].id, score |-> room.players[i].score,
                      pokemon |-> room.players[i].pokemon]]]

\* the task in which handler result e left a startNewRound of object o suspended
SuspendedIn(e, o) == {t \in 1..MaxTasks : e.tasks[t].room = o /\ tasks[t].room # o}

\* C21: when the card fetch of a round advancement fails (in startGame, or in
\* the startNewRound of a timer), the room is as it was before the operation
\* began: currentPicker, currentRound, winners, every score and every card.
C21_FetchFailureRestoresRoom ==
    /\ \A c \in Codes, s \in live :
          (RoomOf(c) # Null /\ HasFreeTask)
              => \A t \in SuspendedIn(StartGameEffect(s, c), RoomOf(c)) :
                    RoundState(FetchFailAfter(StartGameEffect(s, c), t, FALSE).rooms[RoomOf(c)])
                        = RoundState(rooms[RoomOf(c)])
    /\ \A o \in Registered, kind \in {"selectStat", "rematch"} :
          (timers[o][kind] > 0 /\ HasFreeTask)
              => \A t \in SuspendedIn(TimerFireEffect(o, kind), o) :
                    RoundState(FetchFailAfter(TimerFireEffect(o, kind), t, FALSE).rooms[o])
                        = RoundState(rooms[o])

\* C22: once a room is deleted from the registry, a delayed round advancement
\* still pending on it (the timer of selectStat or of rematch) is void: when
\* its delay elapses no round advancement runs on the deleted room and no
\* roundStarted is emitted for its code.
C22_DeletedRoomTimerVoid ==
    \A o \in ObjIds, kind \in {"selectStat", "rematch"} :
        (~crashed /\ ~Includes(gameRooms, o) /\ timers[o][kind] > 0 /\ HasFreeTask)
            => /\ TimerFireEffect(o, kind).out = {}
               /\ TimerFireEffect(o, kind).rooms = rooms
               /\ TimerFireEffect(o, kind).tasks = tasks

\* C23: createRoom never replaces or alters a room that exists: whatever code
\* the generator gives, every room registered before the call is registered
\* after it under its code, with its state as it was.
C23_CreateRoomKeepsRooms ==
    \A s \in live, n \in CreatorNames, st \in CreateSettings, c \in CodeChoices :
        (~crashed /\ FreeObjs(c) # {})
            => \A o \in Registered :
                  /\ Includes(CreateRoomEffect(s, n, st, c).gameRooms, o)
                  /\ CreateRoomEffect(s, n, st, c).rooms[o] = rooms[o]

\* what startGame promises of the room it resolves on, and of its snapshot
StartGameResult(room, snapshotRound) ==
    /\ room.winners = <<>>
    /\ ~room.inTieBreaker
    /\ room.tieBreakPlayers = <<>>
    /\ \A i \in 1..Len(room.players) :
          room.players[i].score = 0 /\ room.players[i].pokemon \in Drawn
    /\ snapshotRound = 1
    /\ room.currentRound = 2
    /\ Len(room.players) > 0 => Has(room.players, room.currentPicker)

\* C24: whatever the room was, when startGame completes (at once, or when the
\* last awaited card arrives) winners and tie-break state are empty, every
\* roster player has score 0 and a drawn card, the snapshot has round 1, the
\* stored currentRound is 2, and currentPicker is in a non-empty roster.
C24_StartGameResult ==
    /\ \A c \in Codes, s \in live :
          (~crashed /\ RoomOf(c) # Null
              /\ (NeedsTask(ResetGame(rooms[RoomOf(c)])) => HasFreeTask))
              => \A m \in StartGameEffect(s, c).out :
                    StartGameResult(StartGameEffect(s, c).rooms[RoomOf(c)], m.round)
    /\ \A t \in 1..MaxTasks, card \in Drawn :
          (~crashed /\ tasks[t].room # Null /\ tasks[t].caller = "startGame")
              => \A m \in FetchDoneEffect(t, card, FALSE).out :
                    StartGameResult(FetchDoneEffect(t, card, FALSE).rooms[tasks[t].room],
                                    m.round)

\* what a startNewRound run from room state r leaves once its draws are done,
\* cards aside: the round of its snapshot and the fields the draws do not touch
RoundOutcome(r) ==
    [snapshotRound |-> BeginRound(r).currentRound,
     currentRound |-> FinishRound(BeginRound(r)).currentRound,
     currentPicker |-> BeginRound(r).currentPicker,
     winners |-> r.winners,
     scores |-> [i \in 1..Len(r.players) |-> r.players[i].score],
     inTieBreaker |-> r.inTieBreaker,
     tieBreakPlayers |-> r.tieBreakPlayers]

\* C25: from the same room, the round advancement that rematch triggers ends
\* with the snapshot round, the stored currentRound, winners, scores, tie-break
\* state and currentPicker that startGame ends with.
C25_RematchAsStartGame ==
    \A c \in Codes, s \in live :
        (~crashed /\ RoomOf(c) # Null)
            => RoundOutcome(RematchEffect(s, c).rooms[RoomOf(c)])
                   = RoundOutcome(ResetGame(rooms[RoomOf(c)]))

\* a game of room object o is under way and waits for its picker
AwaitsPicker(o) ==
    /\ rooms[o].currentRound > 1
    /\ Len(rooms[o].winners) < rooms[o].settings.maxWinners
    /\ Len(rooms[o].players) > 0
    /\ Pending(o) = 0
    /\ \A t \in 1..MaxTasks : tasks[t].room # o

\* C26: in every registered room whose game is started and not ended, with a
\* non-empty roster and no round advancement pending, currentPicker is the id
\* of a roster player that is not a winner.
C26_PickerPresent ==
    \A o \in Registered :
        (~crashed /\ AwaitsPicker(o))
            => /\ Has(rooms[o].players, rooms[o].currentPicker)
               /\ ~Includes(rooms[o].winners, rooms[o].currentPicker)

====
